---------------------------- MODULE Spec2Model ----------------------------
(***************************************************************************)
(* A model of the uri_template package (RFC 6570 URI templates):           *)
(*   src/uri_template/variable.py     Variable, VariableInvalid            *)
(*   src/uri_template/uritemplate.py  URITemplate, ExpansionInvalid,       *)
(*                                    ExpansionReserved                    *)
(* A Python str is a sequence of one-character strings; an Optional[str]   *)
(* is a sequence of length at most one holding the str (<<>> is None).     *)
(* A constructor is an operator returning [ok, val, exc]: the object when  *)
(* ok, the raised exception otherwise.                                     *)
(***************************************************************************)
EXTENDS Integers, Sequences, FiniteSets, TLC

VARIABLES input, pc, self, raised, op, env, result

vars == <<input, pc, self, raised, op, env, result>>

(***************************************************************************)
(* Python str and list primitives                                          *)
(***************************************************************************)

\* s[i:] for a 1-based first position i
From(s, i) ==
  IF i > Len(s) THEN <<>> ELSE SubSeq(s, IF i < 1 THEN 1 ELSE i, Len(s))

\* s[:n], the first n characters
Upto(s, n) ==
  IF n <= 0 THEN <<>> ELSE SubSeq(s, 1, IF n > Len(s) THEN Len(s) ELSE n)

\* Python's `sub in s` on str: sub occurs in s as a substring ('' always does)
StrIn(sub, s) ==
  \E i \in 0 .. (Len(s) - Len(sub)) : SubSeq(s, i + 1, i + Len(sub)) = sub

\* s.find(c) + 1: the 1-based position of the first c in s, 0 when absent
Find(s, c) ==
  IF \E i \in 1 .. Len(s) : s[i] = c
    THEN CHOOSE i \in 1 .. Len(s) : s[i] = c /\ \A j \in 1 .. (i - 1) : s[j] # c
    ELSE 0

\* s.split(c, 1) when c is in s: <<before the first c, after it>>
Split1(s, c) ==
  <<Upto(s, Find(s, c) - 1), From(s, Find(s, c) + 1)>>

RECURSIVE SplitAll(_, _)
\* s.split(c): the pieces between every c, [''] for the empty string
SplitAll(s, c) ==
  IF Find(s, c) = 0 THEN <<s>>
  ELSE <<Upto(s, Find(s, c) - 1)>> \o SplitAll(From(s, Find(s, c) + 1), c)

RECURSIVE Join(_, _)
\* sep.join(strs)
Join(strs, sep) ==
  IF strs = <<>> THEN <<>>
  ELSE IF Len(strs) = 1 THEN strs[1]
  ELSE strs[1] \o sep \o Join(Tail(strs), sep)

\* ''.join(strs)
Concat(strs) ==
  Join(strs, <<>>)

(***************************************************************************)
(* Decimal conversions: int(str) on ASCII digits and str(int)              *)
(***************************************************************************)

DigitChars ==
  <<"0", "1", "2", "3", "4", "5", "6", "7", "8", "9">>

DigitValue(c) ==
  (CHOOSE i \in 1 .. 10 : DigitChars[i] = c) - 1

RECURSIVE IntOf(_)
\* int(s) for a non-empty string of ASCII digits: leading zeros carry no value
IntOf(s) ==
  IF s = <<>> THEN 0
  ELSE 10 * IntOf(Upto(s, Len(s) - 1)) + DigitValue(s[Len(s)])

RECURSIVE StrOf(_)
\* str(n) for n >= 0: the shortest decimal spelling
StrOf(n) ==
  IF n < 10 THEN <<DigitChars[n + 1]>>
  ELSE StrOf(n \div 10) \o <<DigitChars[(n % 10) + 1]>>

(***************************************************************************)
(* Charset (charset.py): the character classes, each a Python str          *)
(***************************************************************************)

ALPHA ==
  <<"A", "B", "C", "D", "E", "F", "G", "H", "I", "J", "K", "L", "M",
    "N", "O", "P", "Q", "R", "S", "T", "U", "V", "W", "X", "Y", "Z",
    "a", "b", "c", "d", "e", "f", "g", "h", "i", "j", "k", "l", "m",
    "n", "o", "p", "q", "r", "s", "t", "u", "v", "w", "x", "y", "z">>

DIGIT ==
  DigitChars

HEX_DIGIT ==
  DigitChars \o <<"A", "B", "C", "D", "E", "F", "a", "b", "c", "d", "e", "f">>

UNRESERVED ==
  ALPHA \o DIGIT \o <<"-", ".", "_", "~">>

RESERVED ==
  <<":", "/", "?", "#", "[", "]", "@",
    "!", "$", "&", "'", "(", ")", "*", "+", ",", ";", "=">>

VAR_START ==
  ALPHA \o DIGIT \o <<"_">>

VAR_CHAR ==
  VAR_START \o <<".">>

(***************************************************************************)
(* Exceptions                                                              *)
(***************************************************************************)

NoExc ==
  [kind |-> "none", arg |-> <<>>]

Exc(kind, arg) ==
  [kind |-> kind, arg |-> arg]

VariableInvalid(variable) ==
  Exc("VariableInvalid", variable)

ExpansionReserved(expansion) ==
  Exc("ExpansionReserved", expansion)

ExpansionInvalid(expansion) ==
  Exc("ExpansionInvalid", expansion)

\* ExpansionFailed (expansions.py), raised by a node's expand or partial
ExpansionFailed(variable) ==
  Exc("ExpansionFailed", variable)

\* Python's own IndexError: a str indexed out of range
IndexError ==
  Exc("IndexError", <<>>)

Ok(val) ==
  [ok |-> TRUE, val |-> val, exc |-> NoExc]

Raise(exc) ==
  [ok |-> FALSE, val |-> <<>>, exc |-> exc]

\* The first exception of a list comprehension or loop ends it: the item
\* just computed, then the items after it
Cons(first, rest) ==
  IF ~first.ok THEN Raise(first.exc)
  ELSE IF ~rest.ok THEN rest
  ELSE Ok(<<first.val>> \o rest.val)

(***************************************************************************)
(* Variable (variable.py)                                                  *)
(***************************************************************************)

\* The fields as set by lines 35-39, before anything is parsed
NewVariable ==
  [name |-> <<>>, max_length |-> 0, explode |-> FALSE, array |-> FALSE,
   default |-> <<>>]

\* Lines 78-79: the modifiers re-synthesized for the error of the name scan
ScanSuffix(v) ==
  (IF v.max_length # 0 THEN <<":">> \o StrOf(v.max_length) ELSE <<>>)
  \o (IF v.array THEN <<"[", "]">> ELSE IF v.explode THEN <<"*">> ELSE <<>>)

\* Lines 69-72: a percent-escape triple starts at the 0-based index
IsPctTriple(var_spec, index) ==
  /\ var_spec[index + 1] = "%"
  /\ (index + 2) < Len(var_spec)
  /\ StrIn(<<var_spec[index + 2]>>, HEX_DIGIT)
  /\ StrIn(<<var_spec[index + 3]>>, HEX_DIGIT)

RECURSIVE ScanName(_, _, _)
\* Lines 66-80: the while loop over the name, from the 0-based index on
ScanName(var_spec, index, v) ==
  IF ~(index < Len(var_spec)) THEN Ok(v)
  ELSE IF IsPctTriple(var_spec, index)
    THEN ScanName(var_spec, index + 3,
                  [v EXCEPT !.name = @ \o SubSeq(var_spec, index + 1, index + 3)])
  ELSE IF StrIn(<<var_spec[index + 1]>>, VAR_CHAR)
    THEN ScanName(var_spec, index + 1,
                  [v EXCEPT !.name = @ \o <<var_spec[index + 1]>>])
  ELSE Raise(VariableInvalid(var_spec \o ScanSuffix(v)))

\* ParsePrefix without the test of line 56: a prefix of value zero is taken
ParsePrefixZero(var_spec, max_length, v) ==
  IF (0 < Len(max_length)) /\ (Len(max_length) < 4)
    THEN IF \E i \in 1 .. Len(max_length) : ~StrIn(<<max_length[i]>>, DIGIT)
           THEN Raise(VariableInvalid(var_spec \o <<":">> \o max_length))
         ELSE Ok(<<var_spec, [v EXCEPT !.max_length = IntOf(max_length)]>>)
    ELSE Raise(VariableInvalid(var_spec \o <<":">> \o max_length))

\* Lines 48-57: the prefix after the first ':'; the name is left to scan
ParsePrefix(var_spec, max_length, v) ==
  IF (0 < Len(max_length)) /\ (Len(max_length) < 4)
    THEN IF \E i \in 1 .. Len(max_length) : ~StrIn(<<max_length[i]>>, DIGIT)
           THEN Raise(VariableInvalid(var_spec \o <<":">> \o max_length))
         ELSE IF IntOf(max_length) = 0
           THEN Raise(VariableInvalid(var_spec \o <<":">> \o max_length))
         ELSE Ok(<<var_spec, [v EXCEPT !.max_length = IntOf(max_length)]>>)
    ELSE Raise(VariableInvalid(var_spec \o <<":">> \o max_length))

\* Lines 47-64: the modifier of the specification left of the default; the
\* name is left to scan
ParseModifier(var_spec, v) ==
  IF StrIn(<<":">>, var_spec)
    THEN ParsePrefix(Split1(var_spec, ":")[1], Split1(var_spec, ":")[2], v)
  ELSE IF var_spec = <<>>
    THEN Raise(IndexError)                    \* line 58: var_spec[-1] of ''
  ELSE IF var_spec[Len(var_spec)] = "*"
    THEN Ok(<<Upto(var_spec, Len(var_spec) - 1), [v EXCEPT !.explode = TRUE]>>)
  ELSE IF From(var_spec, Len(var_spec) - 1) = <<"[", "]">>
    THEN Ok(<<Upto(var_spec, Len(var_spec) - 2),
              [v EXCEPT !.array = TRUE, !.explode = TRUE]>>)
  ELSE Ok(<<var_spec, v>>)

\* Lines 66-80 after lines 47-64
ParseName(modifier) ==
  IF ~modifier.ok THEN modifier
  ELSE ScanName(modifier.val[1], 0, modifier.val[2])

\* Lines 41-42: the first character is no start of a name
BadStart(var_spec) ==
  ~StrIn(Upto(var_spec, 1), VAR_START)

\* Lines 34-80: Variable.__init__
Variable(var_spec) ==
  IF BadStart(var_spec)
    THEN Raise(VariableInvalid(var_spec))
    ELSE ParseName(
           ParseModifier(
             IF StrIn(<<"=">>, var_spec) THEN Split1(var_spec, "=")[1]
             ELSE var_spec,
             IF StrIn(<<"=">>, var_spec)
               THEN [NewVariable EXCEPT !.default = <<Split1(var_spec, "=")[2]>>]
               ELSE NewVariable))

\* Lines 82-86: Variable.__str__
VariableStr(v) ==
  v.name
  \o (IF v.max_length # 0 THEN <<":">> \o StrOf(v.max_length) ELSE <<>>)
  \o (IF v.explode /\ ~v.array THEN <<"*">> ELSE <<>>)
  \o (IF v.array THEN <<"[", "]">> ELSE <<>>)
  \o (IF v.default # <<>> THEN <<"=">> \o v.default[1] ELSE <<>>)

(***************************************************************************)
(* Expansions (expansions.py): the nodes of a template                     *)
(***************************************************************************)

\* The per-operator constants of the ten directive kinds
Operators ==
  [SimpleExpansion |->
     [operator |-> <<>>, partial_operator |-> <<",">>, prefix |-> <<>>,
      sep |-> <<",">>, named |-> FALSE, ifemp |-> <<>>, reserved |-> FALSE],
   ReservedExpansion |->
     [operator |-> <<"+">>, partial_operator |-> <<",", "+">>, prefix |-> <<>>,
      sep |-> <<",">>, named |-> FALSE, ifemp |-> <<>>, reserved |-> TRUE],
   FragmentExpansion |->
     [operator |-> <<"#">>, partial_operator |-> <<",", "+">>, prefix |-> <<"#">>,
      sep |-> <<",">>, named |-> FALSE, ifemp |-> <<>>, reserved |-> TRUE],
   LabelExpansion |->
     [operator |-> <<".">>, partial_operator |-> <<".">>, prefix |-> <<".">>,
      sep |-> <<".">>, named |-> FALSE, ifemp |-> <<>>, reserved |-> FALSE],
   PathExpansion |->
     [operator |-> <<"/">>, partial_operator |-> <<"/">>, prefix |-> <<"/">>,
      sep |-> <<"/">>, named |-> FALSE, ifemp |-> <<>>, reserved |-> FALSE],
   PathStyleExpansion |->
     [operator |-> <<";">>, partial_operator |-> <<";">>, prefix |-> <<";">>,
      sep |-> <<";">>, named |-> TRUE, ifemp |-> <<>>, reserved |-> FALSE],
   FormStyleQueryExpansion |->
     [operator |-> <<"?">>, partial_operator |-> <<"&">>, prefix |-> <<"?">>,
      sep |-> <<"&">>, named |-> TRUE, ifemp |-> <<"=">>, reserved |-> FALSE],
   FormStyleQueryContinuation |->
     [operator |-> <<"&">>, partial_operator |-> <<"&">>, prefix |-> <<"&">>,
      sep |-> <<"&">>, named |-> TRUE, ifemp |-> <<"=">>, reserved |-> FALSE],
   CommaExpansion |->
     [operator |-> <<",">>, partial_operator |-> <<",">>, prefix |-> <<",">>,
      sep |-> <<",">>, named |-> FALSE, ifemp |-> <<>>, reserved |-> FALSE],
   ReservedCommaExpansion |->
     [operator |-> <<",", "+">>, partial_operator |-> <<",", "+">>, prefix |-> <<",">>,
      sep |-> <<",">>, named |-> FALSE, ifemp |-> <<>>, reserved |-> TRUE]]

\* Literal(value): a text run
Literal(value) ==
  [type |-> "Literal", value |-> value, vars |-> <<>>]

RECURSIVE VariableList(_)
\* [Variable(var) for var in segments]
VariableList(segments) ==
  IF segments = <<>> THEN Ok(<<>>)
  ELSE Cons(Variable(segments[1]), VariableList(Tail(segments)))

\* The node of a directive whose variables parsed
ExpressionNode(type, parsed) ==
  IF parsed.ok THEN Ok([type |-> type, value |-> <<>>, vars |-> parsed.val])
  ELSE Raise(parsed.exc)

\* A directive node of the given kind from the body of its {...} span: the
\* operator is stripped, the rest split on ',' and each piece parsed
Expression(type, expansion) ==
  ExpressionNode(type,
    VariableList(SplitAll(From(expansion, Len(Operators[type].operator) + 1),
                          ",")))

\* [str(var) for var in variables]
VariableStrs(variables) ==
  [i \in 1 .. Len(variables) |-> VariableStr(variables[i])]

\* str(node): a literal's text, a directive's source syntax
ExpansionStr(node) ==
  IF node.type = "Literal" THEN node.value
  ELSE <<"{">> \o Operators[node.type].operator
       \o Join(VariableStrs(node.vars), <<",">>) \o <<"}">>

(***************************************************************************)
(* Values and percent-encoding                                             *)
(***************************************************************************)

\* A binding of the value environment: absent, a scalar string, a sequence
\* of strings, or an associative mapping (a sequence of <<key, value>>)
Absent ==
  [kind |-> "absent", val |-> <<>>]

Str(s) ==
  [kind |-> "str", val |-> s]

List(items) ==
  [kind |-> "list", val |-> items]

Map(pairs) ==
  [kind |-> "map", val |-> pairs]

\* The two hex digits of an ASCII character that is neither a letter nor a digit
HexCode(c) ==
  CASE c = " " -> <<"2", "0">> [] c = "!" -> <<"2", "1">>
    [] c = "\"" -> <<"2", "2">> [] c = "#" -> <<"2", "3">>
    [] c = "$" -> <<"2", "4">> [] c = "%" -> <<"2", "5">>
    [] c = "&" -> <<"2", "6">> [] c = "'" -> <<"2", "7">>
    [] c = "(" -> <<"2", "8">> [] c = ")" -> <<"2", "9">>
    [] c = "*" -> <<"2", "A">> [] c = "+" -> <<"2", "B">>
    [] c = "," -> <<"2", "C">> [] c = "-" -> <<"2", "D">>
    [] c = "." -> <<"2", "E">> [] c = "/" -> <<"2", "F">>
    [] c = ":" -> <<"3", "A">> [] c = ";" -> <<"3", "B">>
    [] c = "<" -> <<"3", "C">> [] c = "=" -> <<"3", "D">>
    [] c = ">" -> <<"3", "E">> [] c = "?" -> <<"3", "F">>
    [] c = "@" -> <<"4", "0">> [] c = "[" -> <<"5", "B">>
    [] c = "\\" -> <<"5", "C">> [] c = "]" -> <<"5", "D">>
    [] c = "^" -> <<"5", "E">> [] c = "_" -> <<"5", "F">>
    [] c = "{" -> <<"7", "B">>
    [] c = "|" -> <<"7", "C">> [] c = "}" -> <<"7", "D">>
    [] c = "~" -> <<"7", "E">> [] c = "\n" -> <<"0", "A">>

RECURSIVE Encode(_, _)
\* Percent-encode every character of value outside the legal set
Encode(value, legal) ==
  IF value = <<>> THEN <<>>
  ELSE (IF StrIn(<<value[1]>>, legal) THEN <<value[1]>>
        ELSE <<"%">> \o HexCode(value[1]))
       \o Encode(Tail(value), legal)

\* The characters an operator leaves as they are
Legal(o) ==
  IF o.reserved THEN UNRESERVED \o RESERVED ELSE UNRESERVED

(***************************************************************************)
(* Expansions (expansions.py): expand and partial of a node                *)
(***************************************************************************)

\* The binding of a variable in the environment
Lookup(values, name) ==
  IF name \in DOMAIN values THEN values[name] ELSE Absent

\* The value a variable expands with: its binding, else its default
Resolve(variable, values) ==
  IF Lookup(values, variable.name).kind = "absent" /\ variable.default # <<>>
    THEN Str(variable.default[1])
    ELSE Lookup(values, variable.name)

\* A prefix modifier applies to a scalar only: a composite value under one
\* cannot be rendered
CannotRender(variable, value) ==
  variable.max_length # 0 /\ value.kind \in {"list", "map"}

\* name=value, or the name with ifemp for an empty value, or the bare value
Named(o, name, encoded) ==
  IF ~o.named THEN encoded
  ELSE IF encoded = <<>> THEN name \o o.ifemp
  ELSE name \o <<"=">> \o encoded

RECURSIVE EncodeItems(_, _)
\* Each element of a sequence, encoded
EncodeItems(items, legal) ==
  IF items = <<>> THEN <<>>
  ELSE <<Encode(items[1], legal)>> \o EncodeItems(Tail(items), legal)

RECURSIVE NamedItems(_, _, _)
\* Each encoded element of an exploded sequence as name=element or bare
NamedItems(o, name, encoded) ==
  IF encoded = <<>> THEN <<>>
  ELSE <<Named(o, name, encoded[1])>> \o NamedItems(o, name, Tail(encoded))

RECURSIVE EncodePairs(_, _, _)
\* Each entry of a mapping as key<joiner>value, encoded
EncodePairs(pairs, legal, joiner) ==
  IF pairs = <<>> THEN <<>>
  ELSE <<Encode(pairs[1][1], legal) \o joiner \o Encode(pairs[1][2], legal)>>
       \o EncodePairs(Tail(pairs), legal, joiner)

\* One variable's contribution to its directive: <<>> for none, else <<text>>
ExpandVar(o, variable, value) ==
  CASE value.kind = "absent" -> <<>>
    [] value.kind = "str" ->
         <<Named(o, variable.name,
                 Encode(IF variable.max_length # 0
                          THEN Upto(value.val, variable.max_length)
                          ELSE value.val, Legal(o)))>>
    [] value.kind = "list" ->
         IF value.val = <<>> THEN <<>>
         ELSE IF variable.explode
           THEN <<Join(NamedItems(o, variable.name,
                                  EncodeItems(value.val, Legal(o))), o.sep)>>
         ELSE <<Named(o, variable.name,
                      Join(EncodeItems(value.val, Legal(o)), <<",">>))>>
    [] value.kind = "map" ->
         IF value.val = <<>> THEN <<>>
         ELSE IF variable.explode
           THEN <<Join(EncodePairs(value.val, Legal(o), <<"=">>), o.sep)>>
         ELSE <<Named(o, variable.name,
                      Join(EncodePairs(value.val, Legal(o), <<",">>), <<",">>))>>

\* The text so far, then the rest of the directive
Prepend(text, rest) ==
  IF ~rest.ok THEN rest ELSE Ok(text \o rest.val)

RECURSIVE ExpandVars(_, _, _, _)
RECURSIVE ExpandValue(_, _, _, _, _)
RECURSIVE ExpandPart(_, _, _, _, _)
\* The contributions of a directive's variables, joined: the prefix before
\* the first one, the separator before every later one
ExpandVars(o, variables, values, emitted) ==
  IF variables = <<>> THEN Ok(<<>>)
  ELSE ExpandValue(o, variables, values, emitted,
                   Resolve(variables[1], values))

\* The first variable under its resolved value
ExpandValue(o, variables, values, emitted, value) ==
  IF CannotRender(variables[1], value)
    THEN Raise(ExpansionFailed(VariableStr(variables[1])))
    ELSE ExpandPart(o, variables, values, emitted,
                    ExpandVar(o, variables[1], value))

\* The first variable's contribution, then the other variables
ExpandPart(o, variables, values, emitted, part) ==
  Prepend(IF part = <<>> THEN <<>>
          ELSE (IF emitted THEN o.sep ELSE o.prefix) \o part[1],
          ExpandVars(o, Tail(variables), values, emitted \/ part # <<>>))

\* node.expand(values)
ExpansionExpand(node, values) ==
  IF node.type = "Literal" THEN Ok(node.value)
  ELSE ExpandVars(Operators[node.type], node.vars, values, FALSE)

RECURSIVE PartialVars(_, _, _, _, _)
RECURSIVE PartialValue(_, _, _, _, _, _)
RECURSIVE PartialPart(_, _, _, _, _, _)
\* The partial form of a directive's variables: a bound one is expanded in
\* place, a run of unbound ones is re-emitted as one directive, under the
\* directive's own operator while nothing came before it
PartialVars(o, variables, values, emitted, open) ==
  IF variables = <<>> THEN Ok(IF open THEN <<"}">> ELSE <<>>)
  ELSE PartialValue(o, variables, values, emitted, open,
                    Lookup(values, variables[1].name))

\* The first variable under its binding
PartialValue(o, variables, values, emitted, open, value) ==
  IF CannotRender(variables[1], value)
    THEN Raise(ExpansionFailed(VariableStr(variables[1])))
  ELSE IF value.kind = "absent"
    THEN Prepend((IF open THEN <<",">>
                  ELSE <<"{">> \o (IF emitted THEN o.partial_operator
                                   ELSE o.operator))
                 \o VariableStr(variables[1]),
                 PartialVars(o, Tail(variables), values, TRUE, TRUE))
  ELSE PartialPart(o, variables, values, emitted, open,
                   ExpandVar(o, variables[1], value))

\* The first variable's contribution when bound, then the other variables
PartialPart(o, variables, values, emitted, open, part) ==
  Prepend((IF open THEN <<"}">> ELSE <<>>)
          \o (IF part = <<>> THEN <<>>
              ELSE (IF emitted THEN o.sep ELSE o.prefix) \o part[1]),
          PartialVars(o, Tail(variables), values, emitted \/ part # <<>>,
                      FALSE))

\* node.partial(values)
ExpansionPartial(node, values) ==
  IF node.type = "Literal" THEN Ok(node.value)
  ELSE PartialVars(Operators[node.type], node.vars, values, FALSE, FALSE)

(***************************************************************************)
(* URITemplate (uritemplate.py)                                            *)
(***************************************************************************)

RECURSIVE ReSplit(_)
\* Line 48: re.split(r'(\{[^\}]*\})', template): the text before each span
\* from a '{' to the first '}' after it, the span itself, and the text left
ReSplit(template) ==
  LET open == Find(template, "{")
      close == IF open = 0 THEN 0 ELSE Find(From(template, open + 1), "}")
  IN IF open = 0 \/ close = 0 THEN <<template>>
     ELSE <<Upto(template, open - 1), SubSeq(template, open, open + close)>>
          \o ReSplit(From(template, open + close + 1))

\* The class [a-zA-Z_]: the word characters without the digits
ReWordCharNoDigit(c) ==
  StrIn(<<c>>, ALPHA \o <<"_">>)

\* Line 53: the class [a-zA-Z0-9_] of the regular expression
ReWordChar(c) ==
  StrIn(<<c>>, ALPHA \o DigitChars \o <<"_">>)

\* Line 53: the class [0-9a-fA-F] of the regular expression
ReHexChar(c) ==
  StrIn(<<c>>, DigitChars \o <<"a", "b", "c", "d", "e", "f",
                               "A", "B", "C", "D", "E", "F">>)

\* Line 53: '.*$' matches a rest holding no newline but, at most, a last one
ReRest(rest) ==
  \A i \in 1 .. (Len(rest) - 1) : rest[i] # "\n"

\* Line 53: re.match('^([a-zA-Z0-9_]|%[0-9a-fA-F][0-9a-fA-F]).*$', expansion)
ReMatch(expansion) ==
  /\ expansion # <<>>
  /\ \/ ReWordChar(expansion[1]) /\ ReRest(Tail(expansion))
     \/ /\ expansion[1] = "%"
        /\ Len(expansion) >= 3
        /\ ReHexChar(expansion[2])
        /\ ReHexChar(expansion[3])
        /\ ReRest(From(expansion, 4))

\* The reserved operators without the last of them
ReservedOperatorsShort ==
  <<"=", "!", "@">>

\* Line 74: the operators reserved for future extensions
ReservedOperators ==
  <<"=", "!", "@", "|">>

\* Lines 53-77: the if/elif chain on the body and its first character: the
\* kind of directive, or the exception of its last two branches
ExpansionType(part) ==
  IF ReMatch(SubSeq(part, 2, Len(part) - 1)) THEN "SimpleExpansion"
  ELSE IF part[2] = "+" THEN "ReservedExpansion"
  ELSE IF part[2] = "#" THEN "FragmentExpansion"
  ELSE IF part[2] = "." THEN "LabelExpansion"
  ELSE IF part[2] = "/" THEN "PathExpansion"
  ELSE IF part[2] = ";" THEN "PathStyleExpansion"
  ELSE IF part[2] = "?" THEN "FormStyleQueryExpansion"
  ELSE IF part[2] = "&" THEN "FormStyleQueryContinuation"
  ELSE IF part[2] = ","
    THEN IF (1 < Len(part)) /\ (part[3] = "+")
           THEN "ReservedCommaExpansion"
           ELSE "CommaExpansion"
  ELSE IF StrIn(<<part[2]>>, ReservedOperators) THEN "ExpansionReserved"
  ELSE "ExpansionInvalid"

\* Lines 52-77: a {...} part becomes a directive node, or raises
ParseExpansion(part, type) ==
  IF type = "ExpansionReserved" THEN Raise(ExpansionReserved(part))
  ELSE IF type = "ExpansionInvalid" THEN Raise(ExpansionInvalid(part))
  ELSE Expression(type, SubSeq(part, 2, Len(part) - 1))

\* Line 51: the part is a {...} span
IsSpan(part) ==
  part[1] = "{" /\ part[Len(part)] = "}"

\* ParsePart without the test of line 79: any text run is a Literal
ParsePartAnyLiteral(part) ==
  IF IsSpan(part)
    THEN ParseExpansion(part, ExpansionType(part))
  ELSE Ok(Literal(part))

\* Lines 51-82: one non-empty part becomes a node, or raises
ParsePart(part) ==
  IF IsSpan(part)
    THEN ParseExpansion(part, ExpansionType(part))
  ELSE IF ~StrIn(<<"{">>, part) /\ ~StrIn(<<"}">>, part)
    THEN Ok(Literal(part))
  ELSE Raise(ExpansionInvalid(part))

RECURSIVE ParseParts(_)
\* Lines 49-82: the loop over the parts; the first exception ends it
ParseParts(parts) ==
  IF parts = <<>> THEN Ok(<<>>)
  ELSE IF parts[1] = <<>> THEN ParseParts(Tail(parts))
  ELSE Cons(ParsePart(parts[1]), ParseParts(Tail(parts)))

\* Lines 46-82: URITemplate.__init__; the object is its list self.expansions
URITemplate(template) ==
  ParseParts(ReSplit(template))

\* vars.setdefault(var.name, var) in place of the assignment: a known key
\* keeps its value
DictSetDefault(dict, var) ==
  IF \E i \in 1 .. Len(dict) : dict[i].name = var.name
    THEN dict
    ELSE Append(dict, var)

\* Lines 90, 99: vars[var.name] = var on an OrderedDict, kept as the sequence
\* of its values: a new key goes last, a known key keeps its place
DictSet(dict, var) ==
  IF \E i \in 1 .. Len(dict) : dict[i].name = var.name
    THEN [i \in 1 .. Len(dict) |->
            IF dict[i].name = var.name THEN var ELSE dict[i]]
    ELSE Append(dict, var)

RECURSIVE DictSetAll(_, _)
\* Lines 89-90: for var in expansion.variables: vars[var.name] = var
DictSetAll(dict, variables) ==
  IF variables = <<>> THEN dict
  ELSE DictSetAll(DictSet(dict, variables[1]), Tail(variables))

RECURSIVE CollectVars(_, _)
\* Lines 88-90: for expansion in self.expansions: ...
CollectVars(expansions, dict) ==
  IF expansions = <<>> THEN dict
  ELSE CollectVars(Tail(expansions), DictSetAll(dict, expansions[1].vars))

\* Lines 84-91: URITemplate.variables
variables(expansions) ==
  CollectVars(expansions, <<>>)

\* Line 100: [var.name for var in vars.values()]
Names(values) ==
  [i \in 1 .. Len(values) |-> values[i].name]

\* Lines 93-100: URITemplate.variable_names
variable_names(expansions) ==
  Names(CollectVars(expansions, <<>>))

\* What a call returns or raises
ReturnNone ==
  [kind |-> "None", val |-> <<>>, exc |-> NoExc]

Return(kind, val) ==
  [kind |-> kind, val |-> val, exc |-> NoExc]

Raised(exc) ==
  [kind |-> "raise", val |-> <<>>, exc |-> exc]

RECURSIVE ExpandAll(_, _)
\* Line 105: [expansion.expand(kwargs) for expansion in self.expansions]
ExpandAll(expansions, kwargs) ==
  IF expansions = <<>> THEN Ok(<<>>)
  ELSE Cons(ExpansionExpand(expansions[1], kwargs),
            ExpandAll(Tail(expansions), kwargs))

\* expand without the except clause of lines 107-108
ExpandResultUncaught(results) ==
  IF ~results.ok THEN Raised(results.exc)
  ELSE Return("str", Concat(results.val))

\* Lines 106-108: None on ExpansionFailed, else the results joined
ExpandResult(results) ==
  IF ~results.ok THEN ReturnNone ELSE Return("str", Concat(results.val))

\* Lines 102-108: URITemplate.expand
expand(expansions, kwargs) ==
  ExpandResult(ExpandAll(expansions, kwargs))

RECURSIVE PartialAll(_, _)
\* Line 113: [expansion.partial(kwargs) for expansion in self.expansions]
PartialAll(expansions, kwargs) ==
  IF expansions = <<>> THEN Ok(<<>>)
  ELSE Cons(ExpansionPartial(expansions[1], kwargs),
            PartialAll(Tail(expansions), kwargs))

\* Line 116: the new template returned, or its constructor's exception
Constructed(new) ==
  IF new.ok THEN Return("URITemplate", new.val) ELSE Raised(new.exc)

\* partial without the except clause of lines 114-115
PartialResultUncaught(results) ==
  IF ~results.ok THEN Raised(results.exc)
  ELSE Constructed(URITemplate(Concat(results.val)))

\* Lines 114-116: None on ExpansionFailed, else URITemplate(''.join(expanded))
PartialResult(results) ==
  IF ~results.ok THEN ReturnNone
  ELSE Constructed(URITemplate(Concat(results.val)))

\* Lines 110-116: URITemplate.partial
partial(expansions, kwargs) ==
  PartialResult(PartialAll(expansions, kwargs))

\* Lines 123-125: URITemplate.__str__
URITemplateStr(expansions) ==
  Concat([i \in 1 .. Len(expansions) |-> ExpansionStr(expansions[i])])

\* expanded as "the expansion with no values succeeds"
expandedIfExpands(expansions) ==
  expand(expansions, <<>>).kind = "str"

\* Lines 118-121: URITemplate.expanded
expanded(expansions) ==
  Return("str", URITemplateStr(expansions)) = expand(expansions, <<>>)

(***************************************************************************)
(* Inputs                                                                  *)
(***************************************************************************)

\* Every sequence of at most n elements of the alphabet
Strings(alphabet, n) ==
  UNION {[1 .. k -> alphabet] : k \in 0 .. n}

MaxSpecLen == 4

MaxPrefixLen == 4

MaxBodyLen == 3

MaxChunks == 3

\* The characters of a variable specification
SpecAlphabet ==
  {"a", "0", "1", ":", "*", "[", "]", "=", "%"}

\* Names with percent-escapes, modifiers in either order, and defaults
LongSpecs ==
  {n \o m \o d :
     n \in {<<"a">>, <<"a", "%", "a", "1", "a">>, <<"a", "%", "a", "1">>,
            <<"a", "%", "1", "a">>, <<"a", ".", "b">>, <<"a", "-">>},
     m \in {<<>>, <<"*">>, <<"[", "]">>, <<":", "9", "9", "9">>,
            <<":", "0", "0", "7">>, <<":", "3", "*">>, <<"*", ":", "3">>,
            <<"[", "]", ":", "3">>, <<":", "3", "[", "]">>},
     d \in {<<>>, <<"=">>, <<"=", "b", "=", ":", "0">>}}

\* The variable specifications Variable is constructed from
VarSpecs ==
  Strings(SpecAlphabet, MaxSpecLen)
  \cup {<<"a", ":">> \o p : p \in Strings({"0", "1", "*"}, MaxPrefixLen)}
  \cup LongSpecs

\* The characters of a directive's body
BodyAlphabet ==
  {"a", "b", "1", ",", "+", "!", "-", ":", "*", "=", "{"}

\* Whole parts of a template: text, stray braces, directives
Chunks ==
  {<<"x">>, <<"{">>, <<"}">>, <<"{", "a", "}">>, <<"{", "a", "*", "}">>,
   <<"{", "a", ":", "0", "1", "}">>, <<"{", "?", "b", ",", "a", "=", "d", "}">>,
   <<"{", "|", "}">>}

\* The first characters a directive's body is dispatched on
FirstChars ==
  {"a", "Z", "7", "_", "%", "+", "#", ".", "/", ";", "?", "&", ",",
   "=", "!", "@", "|", "-", "$", "{", " ", "\n"}

\* The template strings URITemplate is constructed from
Templates ==
  {<<"{">> \o body \o <<"}">> : body \in Strings(BodyAlphabet, MaxBodyLen)}
  \cup {Concat(chunks) : chunks \in Strings(Chunks, MaxChunks)}
  \cup {head \o <<"{", c>> \o tail \o <<"}">> :
          head \in {<<>>, <<"x">>, <<"{", "a", "}">>},
          c \in FirstChars,
          tail \in {<<>>, <<"a">>, <<"4", "1", "a">>, <<"+", "a">>, <<"\n">>,
                    <<"=", "{">>}}

\* The names a value environment binds
EnvNames ==
  {<<"a">>, <<"b">>}

\* The values a name is bound to
Values ==
  {Absent, Str(<<>>), Str(<<"v", "/", "{">>),
   List(<<<<"v">>, <<"w">>>>), Map(<<<<<<"k">>, <<"v">>>>>>)}

\* The value environments of a call
Envs ==
  [EnvNames -> Values]

(***************************************************************************)
(* The state machine: one object is constructed from the input, then its   *)
(* operations are called on it in any order                                *)
(***************************************************************************)

NoCall ==
  [kind |-> "none", val |-> <<>>, exc |-> NoExc]

InitTemplate ==
  /\ input \in Templates
  /\ pc = "template"
  /\ self = <<>>
  /\ raised = NoExc
  /\ op = "none"
  /\ env = <<>>
  /\ result = NoCall

InitVariable ==
  /\ input \in VarSpecs
  /\ pc = "var_spec"
  /\ self = <<>>
  /\ raised = NoExc
  /\ op = "none"
  /\ env = <<>>
  /\ result = NoCall

\* Variable(input)
NewVariableAction ==
  /\ pc = "var_spec"
  /\ \E new \in {Variable(input)} :
       /\ pc' = IF new.ok THEN "Variable" ELSE "raised"
       /\ self' = new.val
       /\ raised' = new.exc
  /\ UNCHANGED <<input, op, env, result>>

\* str(self) of a Variable
StrVariable ==
  /\ pc = "Variable"
  /\ op = "none"
  /\ op' = "str"
  /\ result' = Return("str", VariableStr(self))
  /\ UNCHANGED <<input, pc, self, raised, env>>

\* URITemplate(input)
NewURITemplate ==
  /\ pc = "template"
  /\ \E new \in {URITemplate(input)} :
       /\ pc' = IF new.ok THEN "URITemplate" ELSE "raised"
       /\ self' = new.val
       /\ raised' = new.exc
  /\ UNCHANGED <<input, op, env, result>>

\* str(self) of a URITemplate
StrTemplate ==
  /\ pc = "URITemplate"
  /\ op = "none"
  /\ op' = "str"
  /\ env' = <<>>
  /\ result' = Return("str", URITemplateStr(self))
  /\ UNCHANGED <<input, pc, self, raised>>

\* self.variables
GetVariables ==
  /\ pc = "URITemplate"
  /\ op = "none"
  /\ op' = "variables"
  /\ env' = <<>>
  /\ result' = Return("list", variables(self))
  /\ UNCHANGED <<input, pc, self, raised>>

\* self.variable_names
GetVariableNames ==
  /\ pc = "URITemplate"
  /\ op = "none"
  /\ op' = "variable_names"
  /\ env' = <<>>
  /\ result' = Return("list", variable_names(self))
  /\ UNCHANGED <<input, pc, self, raised>>

\* self.expand(**kwargs)
Expand ==
  /\ pc = "URITemplate"
  /\ op = "none"
  /\ \E kwargs \in Envs :
       /\ op' = "expand"
       /\ env' = kwargs
       /\ result' = expand(self, kwargs)
  /\ UNCHANGED <<input, pc, self, raised>>

\* self.partial(**kwargs)
Partial ==
  /\ pc = "URITemplate"
  /\ op = "none"
  /\ \E kwargs \in Envs :
       /\ op' = "partial"
       /\ env' = kwargs
       /\ result' = partial(self, kwargs)
  /\ UNCHANGED <<input, pc, self, raised>>

\* self.expanded
GetExpanded ==
  /\ pc = "URITemplate"
  /\ op = "none"
  /\ op' = "expanded"
  /\ env' = <<>>
  /\ result' = Return("bool", expanded(self))
  /\ UNCHANGED <<input, pc, self, raised>>

\* The caller takes the result: the object is as it was before the call
Done ==
  /\ op # "none"
  /\ op' = "none"
  /\ env' = <<>>
  /\ result' = NoCall
  /\ UNCHANGED <<input, pc, self, raised>>

Next ==
  \/ NewURITemplate
  \/ StrTemplate
  \/ GetVariables
  \/ GetVariableNames
  \/ Expand
  \/ Partial
  \/ GetExpanded
  \/ Done

Spec ==
  InitTemplate /\ [][Next]_vars

NextVariable ==
  \/ NewVariableAction
  \/ StrVariable
  \/ Done

SpecVariable ==
  InitVariable /\ [][NextVariable]_vars

(***************************************************************************)
(* Properties                                                              *)
(***************************************************************************)

\* A call on the constructed template has returned
Called(name) ==
  pc = "URITemplate" /\ op = name

\* The constructor of URITemplate has run on the input
Constructing ==
  pc \in {"URITemplate", "raised"}

\* The constructor of Variable has run on the input
ConstructingVariable ==
  pc \in {"Variable", "raised"}

\* C1: for every template string whose construction succeeds, str() of the
\* template equals the string, character for character
C1_RoundTrip ==
  Called("str") => result.val = input

\* Every Variable of every node, in textual order
RECURSIVE AllVars(_)
AllVars(expansions) ==
  IF expansions = <<>> THEN <<>>
  ELSE expansions[1].vars \o AllVars(Tail(expansions))

\* The positions of a sequence of Variables where a name occurs first
FirstPositions(all) ==
  {i \in 1 .. Len(all) : \A j \in 1 .. (i - 1) : all[j].name # all[i].name}

\* The position of the k-th distinct name's first occurrence
KthFirst(all, k) ==
  CHOOSE i \in FirstPositions(all) :
    Cardinality({j \in FirstPositions(all) : j < i}) = k - 1

\* The position where the name at position i occurs last
LastOf(all, i) ==
  CHOOSE j \in 1 .. Len(all) :
    /\ all[j].name = all[i].name
    /\ \A l \in (j + 1) .. Len(all) : all[l].name # all[i].name

\* C2 as stated: variables holds, per distinct name and in the order of the
\* names' first occurrences, the specification of the FIRST occurrence
C2_FirstOccurrenceWins ==
  Called("variables") =>
    result.val = [k \in 1 .. Cardinality(FirstPositions(AllVars(self))) |->
                    AllVars(self)[KthFirst(AllVars(self), k)]]

\* C2 amended: variables holds, per distinct name and in the order of the
\* names' first occurrences, the specification of the name's LAST
\* occurrence; variable_names holds the same names in the same order
C2_LastOccurrenceWins ==
  /\ Called("variables") =>
       result.val = [k \in 1 .. Cardinality(FirstPositions(AllVars(self))) |->
                       AllVars(self)[LastOf(AllVars(self),
                                            KthFirst(AllVars(self), k))]]
  /\ Called("variable_names") =>
       result.val = [k \in 1 .. Cardinality(FirstPositions(AllVars(self))) |->
                       AllVars(self)[KthFirst(AllVars(self), k)].name]

\* variables has returned for a template naming a variable twice, under
\* different modifiers, after another name came in between or before
C2_Witness ==
  /\ Called("variables")
  /\ Len(result.val) >= 2
  /\ \E i \in FirstPositions(AllVars(self)) :
       AllVars(self)[LastOf(AllVars(self), i)] # AllVars(self)[i]

\* Some node's partial raises ExpansionFailed under the environment
SomePartialFails(expansions, kwargs) ==
  \E i \in 1 .. Len(expansions) : ~ExpansionPartial(expansions[i], kwargs).ok

\* The concatenation of the nodes' partial results
JoinedPartials(expansions, kwargs) ==
  Concat([i \in 1 .. Len(expansions) |->
            ExpansionPartial(expansions[i], kwargs).val])

\* C3 as stated: partial returns None only when re-parsing the concatenation
\* of the nodes' partial results fails, a new template in every other case,
\* and raises nothing
C3_NoneIffReparseFails ==
  Called("partial") =>
    /\ result.kind \in {"None", "URITemplate"}
    /\ result.kind = "None" <=>
         (~SomePartialFails(self, env)
          /\ ~URITemplate(JoinedPartials(self, env)).ok)

\* C3 amended: partial returns None exactly when some node's partial raises
\* ExpansionFailed; otherwise it is the outcome of constructing a template
\* from the concatenation: the template, or the constructor's exception
C3_NoneIffExpansionFailed ==
  Called("partial") =>
    /\ result.kind = "None" <=> SomePartialFails(self, env)
    /\ ~SomePartialFails(self, env) =>
         \/ /\ URITemplate(JoinedPartials(self, env)).ok
            /\ result.kind = "URITemplate"
            /\ result.val = URITemplate(JoinedPartials(self, env)).val
         \/ /\ ~URITemplate(JoinedPartials(self, env)).ok
            /\ result.kind = "raise"
            /\ result.exc = URITemplate(JoinedPartials(self, env)).exc

\* partial has returned None for an ill-typed binding, after an earlier
\* node's partial went through
C3_Witness ==
  /\ Called("partial")
  /\ result.kind = "None"
  /\ Len(self) >= 2
  /\ ExpansionPartial(self[1], env).ok

\* Some node's expand raises ExpansionFailed under the environment
SomeExpandFails(expansions, kwargs) ==
  \E i \in 1 .. Len(expansions) : ~ExpansionExpand(expansions[i], kwargs).ok

\* C4: expand returns None, and raises nothing, when any node's expand
\* raises ExpansionFailed; otherwise the nodes' results joined in node order
C4_ExpandAllOrNone ==
  Called("expand") =>
    IF SomeExpandFails(self, env)
      THEN result = ReturnNone
      ELSE /\ result.kind = "str"
           /\ result.val = Concat([i \in 1 .. Len(self) |->
                                     ExpansionExpand(self[i], env).val])

\* expand has returned None although the first node expanded to some text
C4_Witness ==
  /\ Called("expand")
  /\ result.kind = "None"
  /\ Len(self) >= 2
  /\ ExpansionExpand(self[1], env).ok
  /\ ExpansionExpand(self[1], env).val # <<>>

\* C5 as stated: a specification that does not begin with a start
\* character of a name, the empty one included, fails with VariableInvalid
C5_BadStartIsVariableInvalid ==
  (ConstructingVariable
     /\ (input = <<>> \/ ~StrIn(<<input[1]>>, VAR_START))) =>
    (pc = "raised" /\ raised.kind = "VariableInvalid")

\* The template is one directive whose body is a name that starts with a
\* decimal digit
DigitNamed(template) ==
  /\ Len(template) >= 3
  /\ template[1] = "{"
  /\ template[Len(template)] = "}"
  /\ StrIn(<<template[2]>>, DIGIT)
  /\ \A i \in 2 .. (Len(template) - 1) : StrIn(<<template[i]>>, VAR_START)

\* C6 as stated: a directive whose name begins with a decimal digit fails
\* with VariableInvalid
C6_DigitStartRejected ==
  (Constructing /\ DigitNamed(input)) =>
    (pc = "raised" /\ raised.kind = "VariableInvalid")

\* C6 amended: a directive whose name begins with a decimal digit is
\* accepted, as a simple expansion of the variable of that name
C6_DigitStartAccepted ==
  (Constructing /\ DigitNamed(input)) =>
    /\ pc = "URITemplate"
    /\ self = <<[type |-> "SimpleExpansion", value |-> <<>>,
                 vars |-> <<[NewVariable EXCEPT
                               !.name = SubSeq(input, 2, Len(input) - 1)]>>]>>

\* A template of a name that begins with a digit and goes on with a letter
\* has been constructed
C6_Witness ==
  /\ pc = "URITemplate"
  /\ DigitNamed(input)
  /\ \E i \in 3 .. (Len(input) - 1) : StrIn(<<input[i]>>, ALPHA)

\* The non-empty parts of the split of a template, in order
Parts(template) ==
  SelectSeq(ReSplit(template), LAMBDA part : part # <<>>)

\* The parser reaches the i-th part: every part before it parsed
Reached(parts, i) ==
  \A j \in 1 .. (i - 1) : ParsePart(parts[j]).ok

\* The body of the {...} part starts with an operator reserved for later
BodyReserved(part) ==
  /\ Len(part) > 2
  /\ part[2] \in {"=", "!", "@", "|"}

\* The body of the {...} part is empty, or starts with no start character of
\* a name, no percent-escape, no operator and no reserved operator
BodyUnrecognized(part) ==
  \/ Len(part) = 2
  \/ /\ ~StrIn(<<part[2]>>, VAR_START)
     /\ ~(/\ part[2] = "%"
          /\ Len(part) >= 5
          /\ StrIn(<<part[3]>>, HEX_DIGIT)
          /\ StrIn(<<part[4]>>, HEX_DIGIT))
     /\ part[2] \notin {"+", "#", ".", "/", ";", "?", "&", ","}
     /\ part[2] \notin {"=", "!", "@", "|"}

\* C7: a {...} part the parser reaches fails the construction with
\* ExpansionReserved of the part when its body starts with = ! @ or |, and
\* with ExpansionInvalid of the part when its body is empty or starts with
\* no character the parser dispatches on
C7_OperatorClassification ==
  Constructing =>
    \A i \in 1 .. Len(Parts(input)) :
      (IsSpan(Parts(input)[i]) /\ Reached(Parts(input), i)) =>
        /\ BodyReserved(Parts(input)[i]) =>
             (pc = "raised" /\ raised = ExpansionReserved(Parts(input)[i]))
        /\ BodyUnrecognized(Parts(input)[i]) =>
             (pc = "raised" /\ raised = ExpansionInvalid(Parts(input)[i]))

\* The construction has failed on a reserved operator in a part that is not
\* the first of the template
C7_Witness ==
  /\ pc = "raised"
  /\ raised.kind = "ExpansionReserved"
  /\ Parts(input)[1] # raised.arg
  /\ raised.arg[2] = "|"

\* C8: when expanded is true of a template, expand returns the template's
\* string under every environment; expanded is true only of templates
\* without a directive
C8_ExpandedIsFixed ==
  /\ (Called("expand") /\ expanded(self)) =>
       result = Return("str", URITemplateStr(self))
  /\ (Called("expanded") /\ result.val) =>
       \A i \in 1 .. Len(self) : self[i].type = "Literal"

\* expand has returned for a template of which expanded is true, under an
\* environment that binds a value
C8_Witness ==
  /\ Called("expand")
  /\ expanded(self)
  /\ self # <<>>
  /\ \E name \in EnvNames : env[name] # Absent

\* The text of a specification left of its default
LeftOfDefault(var_spec) ==
  IF StrIn(<<"=">>, var_spec) THEN Split1(var_spec, "=")[1] ELSE var_spec

\* The specification has a prefix modifier
HasPrefix(var_spec) ==
  StrIn(<<":">>, LeftOfDefault(var_spec))

\* The text of the prefix modifier, after its ':'
PrefixText(var_spec) ==
  Split1(LeftOfDefault(var_spec), ":")[2]

\* The text before the prefix modifier's ':'
PrefixedText(var_spec) ==
  Split1(LeftOfDefault(var_spec), ":")[1]

\* A prefix written as empty, as more than 3 characters, with a non-digit,
\* or with the value zero
MalformedPrefix(text) ==
  \/ Len(text) = 0
  \/ Len(text) > 3
  \/ \E i \in 1 .. Len(text) : text[i] \notin {"0", "1", "2", "3", "4", "5", "6", "7", "8", "9"}
  \/ \A i \in 1 .. Len(text) : text[i] = "0"

\* The text ends with the explode or the array modifier
EndsExploded(text) ==
  /\ text # <<>>
  /\ \/ text[Len(text)] = "*"
     \/ Len(text) >= 2 /\ From(text, Len(text) - 1) = <<"[", "]">>

\* C9: a constructed Variable has max_length in 0..999, never a max_length
\* above 0 together with explode, and explode whenever array; a malformed
\* prefix, and a prefix together with * or [] in either order, are rejected
\* with VariableInvalid
C9_VariableInvariant ==
  /\ pc = "Variable" =>
       /\ self.max_length \in 0 .. 999
       /\ ~(self.max_length > 0 /\ self.explode)
       /\ self.array => self.explode
  /\ (ConstructingVariable /\ HasPrefix(input)
        /\ \/ MalformedPrefix(PrefixText(input))
           \/ EndsExploded(PrefixText(input))
           \/ EndsExploded(PrefixedText(input))) =>
       (pc = "raised" /\ raised.kind = "VariableInvalid")

\* A Variable has been constructed from a specification with a prefix of
\* several digits that starts with a zero
C9_Witness ==
  /\ pc = "Variable"
  /\ self.max_length > 0
  /\ HasPrefix(input)
  /\ Len(PrefixText(input)) > 1
  /\ PrefixText(input)[1] = "0"

RECURSIVE BraceDepth(_, _)
\* The number of braces left open at the end of the text after depth were
\* open before it, -1 once a brace closes none
BraceDepth(text, depth) ==
  IF depth < 0 THEN -1
  ELSE IF text = <<>> THEN depth
  ELSE BraceDepth(Tail(text),
                  IF text[1] = "{" THEN depth + 1
                  ELSE IF text[1] = "}" THEN depth - 1
                  ELSE depth)

\* The text has a brace
HasBrace(text) ==
  StrIn(<<"{">>, text) \/ StrIn(<<"}">>, text)

\* C10 as stated: the construction never succeeds on an input with an
\* unmatched brace
C10_NoUnmatchedBrace ==
  pc = "URITemplate" => BraceDepth(input, 0) = 0

\* C10 amended: no Literal of a constructed template has a brace, and a
\* text run with a brace that the parser reaches fails the construction with
\* ExpansionInvalid of the run
C10_LiteralsBraceFree ==
  /\ pc = "URITemplate" =>
       \A i \in 1 .. Len(self) :
         self[i].type = "Literal" => ~HasBrace(self[i].value)
  /\ Constructing =>
       \A i \in 1 .. Len(Parts(input)) :
         (/\ ~IsSpan(Parts(input)[i])
          /\ HasBrace(Parts(input)[i])
          /\ Reached(Parts(input), i)) =>
           (pc = "raised" /\ raised = ExpansionInvalid(Parts(input)[i]))

\* A template with a Literal has been constructed from an input whose
\* directive holds a brace that is never closed
C10_Witness ==
  /\ pc = "URITemplate"
  /\ BraceDepth(input, 0) > 0
  /\ \E i \in 1 .. Len(self) : self[i].type = "Literal"

=============================================================================
